---------------------------- MODULE Spec2Model ----------------------------
(***************************************************************************)
(* Boot stage record library (bootrecord.c / bootrecord.h).                *)
(*                                                                         *)
(* The model keeps the caller's buffers as byte sequences, the singleton   *)
(* gboot_records_config, and the platform clock.  The two API functions    *)
(* are one action each.  Pointers are small integers: 0 is NULL, a buffer  *)
(* pointer is the buffer's number, a name pointer indexes a string table.  *)
(* Multi-byte fields are little-endian, as on the targets of the library.  *)
(*                                                                         *)
(* boot_record_get_timestamp is only declared, as a weak symbol.  Spec is  *)
(* the library linked with a platform clock; SpecWeak is the library       *)
(* linked without one, where the symbol resolves to address 0.             *)
(***************************************************************************)
EXTENDS Integers, Sequences, FiniteSets, TLC

(***************************************************************************)
(* Bounds of the model.                                                    *)
(***************************************************************************)
\* bytes in the larger caller buffer (80 = header + two entries)
MaxSize == 80
\* the clock counts ticks 0..MaxTick
MaxTick == 1
\* microseconds per clock tick (more than 255, so a time spans two bytes)
TickUs == 300
\* length of the longest label the callers pass (longer than name[24])
MaxLabel == 25

(***************************************************************************)
(* Program constants.                                                      *)
(***************************************************************************)
NULL == 0
BOOT_RECORD_SUCCESS == 0
BOOT_RECORD_ERR_INVALID_PARAMS == -1
BOOT_RECORD_ERR_INSUFFICIENT_MEM == -2
BOOT_RECORD_ERR_OVERFLOW == -3

\* sizeof(profile->name)
NameSize == 24
\* sizeof(boot_record_profile_t): char name[24]; uint64_t time
EntrySize == 32
\* sizeof(boot_stage_record_t): two uint32_t, one uint64_t, profiles[0]
HeaderSize == 16
\* offsetof(boot_stage_record_t, record_id / record_count / start_time)
OffRecordId == 0
OffRecordCount == 4
OffStartTime == 8
\* offsetof(boot_record_profile_t, time)
OffTime == 24

(***************************************************************************)
(* The callers' inputs.                                                    *)
(***************************************************************************)
Buffers == {1, 2}
\* allocated bytes of each buffer: one of MaxSize, one of the minimum size
BufferSize(b) == IF b = 1 THEN MaxSize ELSE HeaderSize + EntrySize
\* the stage id of the call site (0x100, which needs a second byte)
StageIds == {256}
\* the string literals the call sites pass; a name pointer is an index
Strings == << <<>>, <<65>>, [i \in 1..MaxLabel |-> 65 + (i % 7)] >>
NamePtrs == 0..Len(Strings)
\* sizes around the boundaries of the size check and of the capacity
SizeChoices == {HeaderSize, HeaderSize + EntrySize - 1,
                HeaderSize + EntrySize, MaxSize - 1, MaxSize}
\* what a buffer holds before the library first clears it
FillBytes == {90}
\* what the return registers may hold when a call of the unresolved weak
\* symbol falls through to the next instruction
Leftover == {0, 7}

(***************************************************************************)
(* Bytes.                                                                  *)
(***************************************************************************)
RECURSIVE EncodeLE(_, _)
\* the n bytes of the unsigned value v, least significant first
EncodeLE(v, n) == IF n = 0 THEN <<>> ELSE <<v % 256>> \o EncodeLE(v \div 256, n - 1)

RECURSIVE DecodeLE(_)
\* the unsigned value of a little-endian byte sequence
DecodeLE(bytes) ==
    IF bytes = <<>> THEN 0 ELSE Head(bytes) + 256 * DecodeLE(Tail(bytes))

\* the bytes of m at offsets off .. off+n-1 (offsets count from 0)
ReadBytes(m, off, n) == SubSeq(m, off + 1, off + n)

\* m with bytes stored at offset off; a store past the end of m is dropped
WriteBytes(m, off, bytes) ==
    IF off + Len(bytes) <= Len(m)
    THEN SubSeq(m, 1, off) \o bytes \o SubSeq(m, off + Len(bytes) + 1, Len(m))
    ELSE [i \in 1..Len(m) |->
            IF i > off /\ i <= off + Len(bytes) THEN bytes[i - off] ELSE m[i]]

\* variant: the buffer is not cleared
Memset0_skip(m, n) == m

\* variant: only the header is cleared
Memset0_header(m, n) == [i \in 1..16 |-> 0] \o SubSeq(m, 17, Len(m))

\* memset(m, 0, n), for n within the buffer
Memset0(m, n) == [i \in 1..n |-> 0] \o SubSeq(m, n + 1, Len(m))

\* variant: one character fewer is copied
Strncpy_short(src, n) ==
    [i \in 1..n |-> IF i <= Len(src) /\ i < n THEN src[i] ELSE 0]

\* strncpy(dest, src, n): the first n characters of src, zero-padded to n
Strncpy(src, n) == [i \in 1..n |-> IF i <= Len(src) THEN src[i] ELSE 0]

VARIABLES
    gboot_records_config,  \* the static boot_records_t
    mem,                   \* the bytes of each caller buffer
    now,                   \* the clock: ticks at its last reading
    link,                  \* the clock symbol: "linked", "absent", or
                           \* "crashed" once a call of the absent symbol
                           \* has branched to address 0
    last,                  \* the last API call and the status it returned
    sess                   \* the session: the last successful init, the
                           \* appends that succeeded since, whether an
                           \* append has returned Overflow since, and
                           \* whether an init has failed since

vars == <<gboot_records_config, mem, now, link, last, sess>>

\* boot_record_get_timestamp() at tick t
boot_record_get_timestamp(t) == t * TickUs

\* the returns a call of boot_record_get_timestamp can make: a linked clock
\* advances to a tick not before its last reading; a call of the absent
\* symbol that falls through returns what the registers hold
ClockRead ==
    IF link = "linked"
    THEN {[tick |-> t, time |-> boot_record_get_timestamp(t)] :
            t \in now..MaxTick}
    ELSE {[tick |-> now, time |-> v] : v \in Leftover}

\* stage->record_count of the header at the start of buffer bytes m
RecordCount(m) == DecodeLE(ReadBytes(m, OffRecordCount, 4))

\* variant: the entries are strided by the size of the name field
ProfileOffset_name(i) == HeaderSize + i * NameSize

\* variant: every record goes to the first slot
ProfileOffset_first(i) == HeaderSize

\* &stage->profiles[i] as an offset into the buffer
ProfileOffset(i) == HeaderSize + i * EntrySize

\* the zero-initialised static configuration
ZeroConfig ==
    [memory_base |-> NULL, memory_size |-> 0, possible_records |-> 0,
     records |-> NULL]

NoCall == [fn |-> "none", from |-> "Uninitialized", memory_addr |-> NULL, size |-> 0,
           null_name |-> FALSE, status |-> 0]

NoSession == [active |-> FALSE, stage_id |-> 0, memory_addr |-> NULL,
              size |-> 0, start |-> 0, entries |-> <<>>,
              overflowed |-> FALSE, failedInit |-> FALSE]

\* the image at start-up, before the clock symbol is looked at
Start ==
    /\ gboot_records_config = ZeroConfig
    /\ \E f \in FillBytes : mem = [b \in Buffers |-> [i \in 1..BufferSize(b) |-> f]]
    /\ now = 0
    /\ last = NoCall
    /\ sess = NoSession

Init == Start /\ link = "linked"


(***************************************************************************)
(* boot_record_init                                                        *)
(***************************************************************************)
\* variant: a buffer of exactly header + one entry is rejected
InitRejects_le(memory_addr, size) ==
    memory_addr = NULL \/ size <= HeaderSize + EntrySize

\* variant: the size is not checked
InitRejects_null(memory_addr, size) == memory_addr = NULL

\* the parameter check at the top of boot_record_init
InitRejects(memory_addr, size) ==
    memory_addr = NULL \/ size < HeaderSize + EntrySize

\* variant: the header is not subtracted
PossibleRecords_nohdr(size) == size \div EntrySize

\* variant: the division rounds up
PossibleRecords_round(size) ==
    (size - HeaderSize + EntrySize - 1) \div EntrySize

\* number of profile records that fit in size bytes
PossibleRecords(size) == (size - HeaderSize) \div EntrySize

\* the store as the library sees it: Uninitialized, Free or Full
StoreState ==
    IF gboot_records_config.records = NULL
       \/ gboot_records_config.memory_base = NULL
    THEN "Uninitialized"
    ELSE IF RecordCount(mem[gboot_records_config.records])
              >= gboot_records_config.possible_records
         THEN "Full" ELSE "Free"

\* the state a call is made in: StoreState, or Overflowed once an append
\* of this session has returned Overflow
CallState == IF sess.overflowed THEN "Overflowed" ELSE StoreState

\* the header fields boot_record_init stores into the cleared buffer
WriteHeader(m, stage_id, time) ==
    LET m1 == WriteBytes(m, OffRecordId, EncodeLE(stage_id, 4))
        m2 == WriteBytes(m1, OffRecordCount, EncodeLE(0, 4))
    IN  WriteBytes(m2, OffStartTime, EncodeLE(time, 8))

InitCall(memory_addr, size, status) ==
    [fn |-> "init", from |-> CallState, memory_addr |-> memory_addr,
     size |-> size, null_name |-> FALSE, status |-> status]

\* variant: the configuration is cleared before the parameters are checked
InitInvalid_unbinds(memory_addr, size) ==
    /\ last' = InitCall(memory_addr, size, BOOT_RECORD_ERR_INVALID_PARAMS)
    /\ sess' = [sess EXCEPT !.failedInit = TRUE]
    /\ gboot_records_config' = ZeroConfig
    /\ UNCHANGED <<mem, now, link>>

\* variant: the buffer is cleared before its size is checked
InitInvalid_clears(memory_addr, size) ==
    /\ last' = InitCall(memory_addr, size, BOOT_RECORD_ERR_INVALID_PARAMS)
    /\ sess' = [sess EXCEPT !.failedInit = TRUE]
    /\ mem' = IF memory_addr = NULL THEN mem
              ELSE [mem EXCEPT ![memory_addr] = Memset0(@, size)]
    /\ UNCHANGED <<gboot_records_config, now, link>>

\* variant: the buffer is bound before the parameters are checked
InitInvalid_binds(memory_addr, size) ==
    /\ last' = InitCall(memory_addr, size, BOOT_RECORD_ERR_INVALID_PARAMS)
    /\ sess' = [sess EXCEPT !.failedInit = TRUE]
    /\ gboot_records_config' =
          [gboot_records_config EXCEPT !.memory_base = memory_addr,
                                       !.memory_size = size,
                                       !.records = memory_addr]
    /\ UNCHANGED <<mem, now, link>>

\* the early return of boot_record_init: nothing is stored
InitInvalid(memory_addr, size) ==
    /\ last' = InitCall(memory_addr, size, BOOT_RECORD_ERR_INVALID_PARAMS)
    /\ sess' = [sess EXCEPT !.failedInit = TRUE]
    /\ UNCHANGED <<gboot_records_config, mem, now, link>>

\* variant: records keeps pointing at the buffer bound before
NewConfig_stale(memory_addr, size) ==
    [memory_base |-> memory_addr,
     memory_size |-> size,
     possible_records |-> PossibleRecords(size),
     records |-> IF gboot_records_config.records # NULL
                 THEN gboot_records_config.records ELSE memory_addr]

\* the configuration boot_record_init stores after clearing it
NewConfig(memory_addr, size) ==
    [memory_base |-> memory_addr,
     memory_size |-> size,
     possible_records |-> PossibleRecords(size),
     records |-> memory_addr]

boot_record_init(stage_id, memory_addr, size) ==
    IF InitRejects(memory_addr, size)
    THEN InitInvalid(memory_addr, size)
    ELSE LET cleared == Memset0(mem[memory_addr], size)
             config == NewConfig(memory_addr, size)
         IN  IF config.possible_records = 0
             THEN /\ gboot_records_config' = config
                  /\ mem' = [mem EXCEPT ![memory_addr] = cleared]
                  /\ last' = InitCall(memory_addr, size,
                                      BOOT_RECORD_ERR_INSUFFICIENT_MEM)
                  /\ sess' = [sess EXCEPT !.failedInit = TRUE]
                  /\ UNCHANGED <<now, link>>
             ELSE \E r \in ClockRead :
                  /\ now' = r.tick
                  /\ gboot_records_config' = config
                  /\ mem' = [[mem EXCEPT ![memory_addr] = cleared]
                                 EXCEPT ![config.records] =
                               WriteHeader(@, stage_id, r.time)]
                  /\ last' = InitCall(memory_addr, size,
                                      BOOT_RECORD_SUCCESS)
                  /\ sess' = [active |-> TRUE, stage_id |-> stage_id,
                              memory_addr |-> memory_addr, size |-> size,
                              start |-> r.time,
                              entries |-> <<>>,
                              overflowed |-> FALSE, failedInit |-> FALSE]
                  /\ UNCHANGED link

(***************************************************************************)
(* boot_record_log_profile                                                 *)
(***************************************************************************)
\* variant: the check lets one record too many through
IsFull_gt(record_count, possible_records) == record_count > possible_records

\* variant: the check refuses the last free slot
IsFull_early(record_count, possible_records) ==
    record_count >= possible_records - 1

\* the check for the maximum number of profiles
IsFull(record_count, possible_records) == record_count >= possible_records

\* variant: the whole name field is copied, no terminator is stored
WriteProfile_noterm(m, off, str, time) ==
    WriteBytes(WriteBytes(m, off, Strncpy(str, NameSize)),
               off + OffTime, EncodeLE(time, 8))

\* variant: the time is not stored
WriteProfile_notime(m, off, str, time) ==
    WriteBytes(WriteBytes(m, off, Strncpy(str, NameSize - 1)),
               off + NameSize - 1, <<0>>)

\* the profile record stored at offset off: name, terminator, time
WriteProfile(m, off, str, time) ==
    LET m1 == WriteBytes(m, off, Strncpy(str, NameSize - 1))
        m2 == WriteBytes(m1, off + NameSize - 1, <<0>>)
    IN  WriteBytes(m2, off + OffTime, EncodeLE(time, 8))

LogCall(name, status) ==
    [fn |-> "log", from |-> CallState, memory_addr |-> NULL, size |-> 0,
     null_name |-> (name = NULL), status |-> status]

\* variant: a full store wraps around, the count starts again at 0
LogOverflow_wrap(name) ==
    /\ last' = LogCall(name, BOOT_RECORD_ERR_OVERFLOW)
    /\ sess' = [sess EXCEPT !.overflowed = TRUE]
    /\ mem' = [mem EXCEPT ![gboot_records_config.records] =
                 WriteBytes(@, OffRecordCount, EncodeLE(0, 4))]
    /\ UNCHANGED <<gboot_records_config, now, link>>

\* variant: the count is incremented before the capacity check
LogOverflow_counts(name) ==
    /\ last' = LogCall(name, BOOT_RECORD_ERR_OVERFLOW)
    /\ sess' = [sess EXCEPT !.overflowed = TRUE]
    /\ mem' = [mem EXCEPT ![gboot_records_config.records] =
                 WriteBytes(@, OffRecordCount,
                            EncodeLE(RecordCount(@) + 1, 4))]
    /\ UNCHANGED <<gboot_records_config, now, link>>

\* the return at the capacity check: nothing is stored
LogOverflow(name) ==
    /\ last' = LogCall(name, BOOT_RECORD_ERR_OVERFLOW)
    /\ sess' = [sess EXCEPT !.overflowed = TRUE]
    /\ UNCHANGED <<gboot_records_config, mem, now, link>>

boot_record_log_profile(name) ==
    IF name = NULL
    THEN /\ last' = LogCall(name, BOOT_RECORD_ERR_INVALID_PARAMS)
         /\ UNCHANGED <<gboot_records_config, mem, now, link, sess>>
    ELSE IF gboot_records_config.records = NULL
            \/ gboot_records_config.memory_base = NULL
    THEN /\ last' = LogCall(name, BOOT_RECORD_ERR_INVALID_PARAMS)
         /\ UNCHANGED <<gboot_records_config, mem, now, link, sess>>
    ELSE LET stage == gboot_records_config.records
             count == RecordCount(mem[stage])
         IN  IF IsFull(count, gboot_records_config.possible_records)
             THEN LogOverflow(name)
             ELSE \E r \in ClockRead :
                  LET time == r.time
                      m1 == WriteProfile(mem[stage], ProfileOffset(count),
                                         Strings[name], time)
                  IN  /\ now' = r.tick
                      /\ mem' = [mem EXCEPT ![stage] =
                                   WriteBytes(m1, OffRecordCount,
                                              EncodeLE(count + 1, 4))]
                      /\ last' = LogCall(name, BOOT_RECORD_SUCCESS)
                      /\ sess' = [sess EXCEPT !.entries =
                                    Append(@, [name |-> name, time |-> time])]
                      /\ UNCHANGED <<gboot_records_config, link>>

DoInit ==
    \E stage_id \in StageIds, memory_addr \in {NULL} \cup Buffers :
        \E size \in {s \in SizeChoices :
                        memory_addr # NULL => s <= BufferSize(memory_addr)} :
            boot_record_init(stage_id, memory_addr, size)

DoLog == \E name \in NamePtrs : boot_record_log_profile(name)

\* the calls return as long as no call has branched to address 0
Next == (link # "crashed" /\ DoInit) \/ (link # "crashed" /\ DoLog)

Spec == Init /\ [][Next]_vars

(***************************************************************************)
(* The library linked without a definition of boot_record_get_timestamp.   *)
(* The call of the unresolved weak symbol either falls through (DoInit and *)
(* DoLog with ClockRead returning Leftover) or branches to address 0: the  *)
(* stores made before the call stay, the function never returns.           *)
(***************************************************************************)
InitCrash(stage_id, memory_addr, size) ==
    /\ link = "absent"
    /\ ~InitRejects(memory_addr, size)
    /\ NewConfig(memory_addr, size).possible_records # 0
    /\ LET config == NewConfig(memory_addr, size)
           cleared == [mem EXCEPT ![memory_addr] = Memset0(@, size)]
       IN  /\ gboot_records_config' = config
           /\ mem' = [cleared EXCEPT ![config.records] =
                        WriteBytes(WriteBytes(@, OffRecordId,
                                              EncodeLE(stage_id, 4)),
                                   OffRecordCount, EncodeLE(0, 4))]
    /\ link' = "crashed"
    /\ last' = [InitCall(memory_addr, size, BOOT_RECORD_SUCCESS)
                  EXCEPT !.fn = "init crashed"]
    /\ UNCHANGED <<now, sess>>

LogCrash(name) ==
    /\ link = "absent"
    /\ name # NULL
    /\ gboot_records_config.records # NULL
    /\ gboot_records_config.memory_base # NULL
    /\ LET stage == gboot_records_config.records
           count == RecordCount(mem[stage])
           off == ProfileOffset(count)
       IN  /\ ~IsFull(count, gboot_records_config.possible_records)
           /\ mem' = [mem EXCEPT ![stage] =
                        WriteBytes(WriteBytes(@, off,
                                              Strncpy(Strings[name],
                                                      NameSize - 1)),
                                   off + NameSize - 1, <<0>>)]
    /\ link' = "crashed"
    /\ last' = [LogCall(name, BOOT_RECORD_SUCCESS)
                  EXCEPT !.fn = "log crashed"]
    /\ UNCHANGED <<gboot_records_config, now, sess>>

DoInitCrash ==
    \E stage_id \in StageIds, memory_addr \in Buffers :
        \E size \in {s \in SizeChoices : s <= BufferSize(memory_addr)} :
            InitCrash(stage_id, memory_addr, size)

DoLogCrash == \E name \in NamePtrs : LogCrash(name)

InitWeak == Start /\ link = "absent"

NextWeak ==
    \/ (link # "crashed" /\ DoInit)
    \/ (link # "crashed" /\ DoLog)
    \/ DoInitCrash
    \/ DoLogCrash

SpecWeak == InitWeak /\ [][NextWeak]_vars

(***************************************************************************)
(* The downstream reader: it knows only the documented binary layout       *)
(*   offset 0 record_id (u32), offset 4 record_count (u32),                *)
(*   offset 8 start_time (u64), offset 16 + 32*i profiles[i]               *)
(*   { name: u8[24], time: u64 }.                                          *)
(***************************************************************************)
ReadU32(m, off) == DecodeLE(SubSeq(m, off + 1, off + 4))

ReadU64(m, off) == DecodeLE(SubSeq(m, off + 1, off + 8))

RECURSIVE CStr(_)
\* the text of a zero-terminated name field
CStr(bytes) ==
    IF bytes = <<>> \/ Head(bytes) = 0 THEN <<>>
    ELSE <<Head(bytes)>> \o CStr(Tail(bytes))

ReadEntry(m, i) ==
    [name |-> CStr(SubSeq(m, 16 + 32 * i + 1, 16 + 32 * i + 24)),
     time |-> ReadU64(m, 16 + 32 * i + 24)]

\* a label as the store keeps it: at most 23 characters
Truncated(label) ==
    SubSeq(label, 1, IF Len(label) < 23 THEN Len(label) ELSE 23)

\* floor((buffer_size - 16) / 32)
Capacity(size) == (size - 16) \div 32

\* the buffer the store is bound to
Bound == gboot_records_config.memory_base

(***************************************************************************)
(* C1: whenever the store is bound to a buffer, the header's record_count  *)
(* is at most the store's possible_records.                                *)
(***************************************************************************)
C1_CountWithinCapacity ==
    Bound # NULL =>
        ReadU32(mem[Bound], 4) <= gboot_records_config.possible_records

\* a store filled to capacity whose next append was refused
C1_Witness ==
    /\ Bound # NULL
    /\ ReadU32(mem[Bound], 4) = gboot_records_config.possible_records
    /\ last.fn = "log" /\ last.status = BOOT_RECORD_ERR_OVERFLOW

(***************************************************************************)
(* C2: a reader of the bound buffer finds the stage_id and clock value of  *)
(* the last successful init, a record_count equal to the number of appends *)
(* that returned Success since, and entry i holding the truncated label    *)
(* and clock value of the i-th such append, in call order.                 *)
(***************************************************************************)
C2_ReaderSeesSession ==
    sess.active =>
        /\ Bound = sess.memory_addr
        /\ LET m == mem[Bound]
           IN  /\ ReadU32(m, 0) = sess.stage_id
               /\ ReadU32(m, 4) = Len(sess.entries)
               /\ ReadU64(m, 8) = sess.start
               /\ \A i \in 1..Len(sess.entries) :
                    ReadEntry(m, i - 1) =
                        [name |-> Truncated(Strings[sess.entries[i].name]),
                         time |-> sess.entries[i].time]

\* two entries, the second one a truncated label with a later time
C2_Witness ==
    /\ sess.active
    /\ Len(sess.entries) = 2
    /\ sess.entries[1].name # sess.entries[2].name
    /\ Len(Strings[sess.entries[2].name]) > 23
    /\ sess.entries[2].time > sess.entries[1].time
    /\ sess.stage_id > 255

(***************************************************************************)
(* C3: once an append with a non-null label has returned Overflow, every   *)
(* later append with a non-null label returns Overflow, record_count stays *)
(* equal to possible_records and the buffer and the binding are untouched, *)
(* until a boot_record_init returns Success.                               *)
(***************************************************************************)
C3_OverflowPermanent ==
    [][ (sess.overflowed /\ last'.fn = "log" /\ ~last'.null_name) =>
            /\ last'.status = BOOT_RECORD_ERR_OVERFLOW
            /\ Bound' # NULL
            /\ ReadU32(mem'[Bound'], 4) = gboot_records_config'.possible_records
            /\ mem' = mem
            /\ gboot_records_config' = gboot_records_config ]_vars

\* an append refused with Overflow after an earlier Overflow
C3_Witness ==
    /\ last.fn = "log" /\ ~last.null_name
    /\ last.from = "Overflowed"
    /\ last.status = BOOT_RECORD_ERR_OVERFLOW
    /\ Len(sess.entries) > 0

(***************************************************************************)
(* C4: an append that returns InvalidParams or Overflow changes neither    *)
(* a byte of any buffer nor the store's administrative state.              *)
(***************************************************************************)
C4_FailedAppendNoEffect ==
    [][ (last'.fn = "log" /\ last'.status \in {BOOT_RECORD_ERR_INVALID_PARAMS,
                                               BOOT_RECORD_ERR_OVERFLOW}) =>
            /\ mem' = mem
            /\ gboot_records_config' = gboot_records_config ]_vars

\* a refused append on a store that holds entries
C4_Witness ==
    /\ last.fn = "log"
    /\ last.status = BOOT_RECORD_ERR_OVERFLOW
    /\ Bound # NULL
    /\ ReadU32(mem[Bound], 4) = 2

(***************************************************************************)
(* C5, as stated: after a boot_record_init that returned a failure status  *)
(* every append with a non-null label returns InvalidParams until a later  *)
(* boot_record_init returns Success.                                       *)
(***************************************************************************)
C5_FailedInitUninitializes ==
    [][ (sess.failedInit /\ last'.fn = "log" /\ ~last'.null_name) =>
            last'.status = BOOT_RECORD_ERR_INVALID_PARAMS ]_vars

(***************************************************************************)
(* C5, amended: a boot_record_init that returns a failure status leaves    *)
(* the store in the state it was in.  Until a later init returns Success,  *)
(* an append with a non-null label returns InvalidParams if no init had    *)
(* returned Success before the failing one, and otherwise Success or       *)
(* Overflow as the session the failing call found allows.                  *)
(***************************************************************************)
C5_FailedInitKeepsState ==
    [][ /\ (last'.fn = "init" /\ last'.status # BOOT_RECORD_SUCCESS) =>
                gboot_records_config' = gboot_records_config
        /\ (sess.failedInit /\ last'.fn = "log" /\ ~last'.null_name) =>
                last'.status =
                    IF ~sess.active THEN BOOT_RECORD_ERR_INVALID_PARAMS
                    ELSE IF Len(sess.entries) < Capacity(sess.size)
                         THEN BOOT_RECORD_SUCCESS
                         ELSE BOOT_RECORD_ERR_OVERFLOW ]_vars

\* an append that succeeded although an init has failed in the session
C5_Witness ==
    /\ sess.active /\ sess.failedInit
    /\ last.fn = "log" /\ last.status = BOOT_RECORD_SUCCESS

(***************************************************************************)
(* C6: a boot_record_init that returns InvalidParams changes no state:     *)
(* the administrative state, every buffer (the bound one and the one       *)
(* passed) and the clock are as before the call.                           *)
(***************************************************************************)
C6_InvalidInitNoEffect ==
    [][ (last'.fn = "init"
         /\ last'.status = BOOT_RECORD_ERR_INVALID_PARAMS) =>
            /\ gboot_records_config' = gboot_records_config
            /\ mem' = mem
            /\ now' = now ]_vars

\* a rejected init that passed another buffer than the bound one, which
\* holds an entry
C6_Witness ==
    /\ last.fn = "init"
    /\ last.status = BOOT_RECORD_ERR_INVALID_PARAMS
    /\ last.memory_addr # NULL
    /\ Bound # NULL
    /\ last.memory_addr # Bound
    /\ ReadU32(mem[Bound], 4) > 0

(***************************************************************************)
(* C7: with a non-null buffer and a size of at least 48 boot_record_init   *)
(* returns Success and possible_records is floor((size - 16) / 32);        *)
(* exactly that many appends with non-null labels return Success before    *)
(* the first Overflow.                                                     *)
(***************************************************************************)
C7_CapacityFormula ==
    [][ /\ (last'.fn = "init" /\ last'.memory_addr # NULL
            /\ last'.size >= 48) =>
                /\ last'.status = BOOT_RECORD_SUCCESS
                /\ gboot_records_config'.possible_records
                     = Capacity(last'.size)
        /\ (sess.active /\ last'.fn = "log" /\ ~last'.null_name) =>
                /\ (last'.status = BOOT_RECORD_SUCCESS
                      <=> Len(sess.entries) < Capacity(sess.size))
                /\ (last'.status = BOOT_RECORD_ERR_OVERFLOW
                      <=> Len(sess.entries) = Capacity(sess.size)) ]_vars

\* the first Overflow of a store whose size is not header + whole entries
C7_Witness ==
    /\ sess.active
    /\ (sess.size - 16) % 32 # 0
    /\ last.fn = "log" /\ last.from = "Full"
    /\ last.status = BOOT_RECORD_ERR_OVERFLOW
    /\ Len(sess.entries) = Capacity(sess.size)

(***************************************************************************)
(* C8: boot_record_init returns InvalidParams exactly when the buffer is   *)
(* null or the size is below 48; size 48 with a non-null buffer is         *)
(* accepted with possible_records 1.                                       *)
(***************************************************************************)
C8_InitValidation ==
    last.fn = "init" =>
        /\ (last.status = BOOT_RECORD_ERR_INVALID_PARAMS
              <=> (last.memory_addr = NULL \/ last.size < 48))
        /\ (last.memory_addr # NULL /\ last.size = 48) =>
              /\ last.status = BOOT_RECORD_SUCCESS
              /\ gboot_records_config.possible_records = 1

\* a non-null buffer of 47 bytes is rejected
C8_Witness ==
    /\ last.fn = "init"
    /\ last.memory_addr # NULL
    /\ last.size = 47
    /\ last.status = BOOT_RECORD_ERR_INVALID_PARAMS

(***************************************************************************)
(* C9: as long as no boot_record_init has returned Success, every append   *)
(* returns InvalidParams, whatever the label and however many inits have   *)
(* failed.                                                                 *)
(***************************************************************************)
C9_UninitializedAppendFails ==
    (~sess.active /\ last.fn = "log") =>
        last.status = BOOT_RECORD_ERR_INVALID_PARAMS

\* an append with a non-null label after nothing but failed inits
C9_Witness ==
    /\ ~sess.active /\ sess.failedInit
    /\ last.fn = "log" /\ ~last.null_name
    /\ last.status = BOOT_RECORD_ERR_INVALID_PARAMS

(***************************************************************************)
(* C10: a boot_record_init that returns Success leaves a fresh store       *)
(* whatever the state before: the store is bound to the given buffer,      *)
(* record_count is 0, record_id is the given stage_id, start_time is the   *)
(* clock value read, every entry slot in the first size bytes is zero; the *)
(* appends that follow succeed up to the new possible_records and          *)
(* record_count counts only them.                                          *)
(***************************************************************************)
C10_ReinitFresh ==
    [][ /\ (last'.fn = "init" /\ last'.status = BOOT_RECORD_SUCCESS) =>
            /\ Bound' = last'.memory_addr
            /\ gboot_records_config'.possible_records = Capacity(last'.size)
            /\ LET m == mem'[last'.memory_addr]
               IN  /\ ReadU32(m, 4) = 0
                   /\ ReadU32(m, 0) = sess'.stage_id
                   /\ ReadU64(m, 8) = now' * TickUs
                   /\ \A i \in 17..last'.size : m[i] = 0
        /\ (sess.active /\ last'.fn = "log" /\ ~last'.null_name
            /\ Len(sess.entries) < gboot_records_config.possible_records) =>
            /\ last'.status = BOOT_RECORD_SUCCESS
            /\ ReadU32(mem'[Bound'], 4) = Len(sess.entries) + 1 ]_vars

\* a successful init of a store that had overflowed
C10_Witness ==
    /\ last.fn = "init"
    /\ last.status = BOOT_RECORD_SUCCESS
    /\ last.from = "Overflowed"
    /\ now > 0

(***************************************************************************)
(* More of the reader's view.                                              *)
(***************************************************************************)
\* the 32 bytes of entry i
EntryBytes(m, i) == SubSeq(m, 16 + 32 * i + 1, 16 + 32 * i + 32)

\* the 24 name bytes of entry i
NameBytes(m, i) == SubSeq(m, 16 + 32 * i + 1, 16 + 32 * i + 24)

\* the store is Active and has a free slot
HasFreeSlot ==
    /\ Bound # NULL
    /\ ReadU32(mem[Bound], 4) < gboot_records_config.possible_records

\* this step is a boot_record_log_profile call with a non-null label
LogStep == last'.fn = "log" /\ ~last'.null_name

(***************************************************************************)
(* C11: an append with a non-null label on an Active store with            *)
(* record_count below possible_records returns Success, writes the label   *)
(* (cut to 23 characters) and the clock value read into the entry at the   *)
(* old record_count, and increases record_count by exactly one.            *)
(***************************************************************************)
C11_AppendEffect ==
    [][ (HasFreeSlot /\ LogStep) =>
            /\ last'.status = BOOT_RECORD_SUCCESS
            /\ Len(sess'.entries) = Len(sess.entries) + 1
            /\ Bound' = Bound
            /\ LET i == ReadU32(mem[Bound], 4)
                   e == sess'.entries[Len(sess'.entries)]
               IN  /\ ReadU32(mem'[Bound], 4) = i + 1
                   /\ ReadEntry(mem'[Bound], i) =
                        [name |-> Truncated(Strings[e.name]),
                         time |-> now' * TickUs] ]_vars

\* a second append, with a one-character label, at a later clock value
C11_Witness ==
    /\ last.fn = "log" /\ last.status = BOOT_RECORD_SUCCESS
    /\ Len(sess.entries) = 2
    /\ Len(Strings[sess.entries[2].name]) = 1
    /\ sess.entries[2].time > sess.start

(***************************************************************************)
(* C12: between two successful inits every boot_record_log_profile call,   *)
(* successful or not, leaves the 32 bytes of every entry below             *)
(* record_count as they were; record_count grows by one on Success and     *)
(* not at all otherwise, so indices are used in the order 0, 1, 2, ...     *)
(***************************************************************************)
C12_EntriesImmutable ==
    [][ (Bound # NULL /\ last'.fn = "log") =>
            /\ Bound' = Bound
            /\ \A i \in 0..(ReadU32(mem[Bound], 4) - 1) :
                    EntryBytes(mem'[Bound], i) = EntryBytes(mem[Bound], i)
            /\ ReadU32(mem'[Bound], 4) =
                    IF last'.status = BOOT_RECORD_SUCCESS
                    THEN ReadU32(mem[Bound], 4) + 1
                    ELSE ReadU32(mem[Bound], 4) ]_vars

\* a second append after a first one that stored a long label
C12_Witness ==
    /\ last.fn = "log" /\ last.status = BOOT_RECORD_SUCCESS
    /\ Len(sess.entries) = 2
    /\ Len(Strings[sess.entries[1].name]) > 23
    /\ sess.entries[1].time > 0

(***************************************************************************)
(* C13: on an Active store with a free slot a label of any length is       *)
(* accepted; the 24 name bytes are the first min(length, 23) characters    *)
(* followed by zero bytes, so the last byte is zero.                       *)
(***************************************************************************)
C13_LabelTruncated ==
    [][ (HasFreeSlot /\ LogStep) =>
            /\ last'.status = BOOT_RECORD_SUCCESS
            /\ Len(sess'.entries) > 0
            /\ LET label == Strings[sess'.entries[Len(sess'.entries)].name]
                   k == IF Len(label) < 23 THEN Len(label) ELSE 23
                   nm == NameBytes(mem'[Bound], ReadU32(mem[Bound], 4))
               IN  /\ SubSeq(nm, 1, k) = SubSeq(label, 1, k)
                   /\ \A j \in (k + 1)..24 : nm[j] = 0 ]_vars

\* a first append with a label longer than 23 characters
C13_Witness ==
    /\ last.fn = "log" /\ last.status = BOOT_RECORD_SUCCESS
    /\ Len(sess.entries) = 1
    /\ Len(Strings[sess.entries[1].name]) > 23

\* the time of entry i
EntryTime(m, i) == ReadU64(m, 16 + 32 * i + 24)

\* start_time and the entry times as the reader sees them, in order
TimesOrdered ==
    Bound # NULL =>
        LET m == mem[Bound]
            n == ReadU32(m, 4)
        IN  /\ n > 0 => ReadU64(m, 8) <= EntryTime(m, 0)
            /\ \A i \in 1..(n - 1) : EntryTime(m, i - 1) <= EntryTime(m, i)

(***************************************************************************)
(* C14: with a clock whose readings never decrease, start_time and the     *)
(* entry times are non-decreasing in every Active state, and an append     *)
(* to a store with a free slot returns Success whatever the clock reads,   *)
(* a reading equal to the previous one included.                           *)
(***************************************************************************)
C14_TimesNonDecreasing ==
    /\ TimesOrdered
    /\ (last.fn = "log" /\ ~last.null_name /\ last.from = "Free") =>
            last.status = BOOT_RECORD_SUCCESS

\* two appends at the clock value of the init, which is not 0
C14_Witness ==
    /\ last.fn = "log" /\ last.status = BOOT_RECORD_SUCCESS
    /\ Len(sess.entries) = 2
    /\ sess.start > 0
    /\ sess.entries[1].time = sess.start
    /\ sess.entries[2].time = sess.start

(***************************************************************************)
(* C15: without an implementation of boot_record_get_timestamp the two     *)
(* functions still return their usual status, no call ends in a crash,     *)
(* and start_time and every entry time are 0.                              *)
(***************************************************************************)
C15_AbsentClockTolerated ==
    /\ link # "crashed"
    /\ last.fn \in {"none", "init", "log"}
    /\ sess.active =>
          /\ Bound # NULL
          /\ ReadU64(mem[Bound], 8) = 0
          /\ \A i \in 0..(ReadU32(mem[Bound], 4) - 1) :
                ReadEntry(mem[Bound], i).time = 0

\* the capacity fits the size given, and the size fits the buffer
CapacityFits ==
    Bound # NULL =>
        /\ 16 + 32 * gboot_records_config.possible_records
             <= gboot_records_config.memory_size
        /\ gboot_records_config.memory_size <= BufferSize(Bound)

(***************************************************************************)
(* C16: in every Active state 16 + 32 * possible_records is at most        *)
(* memory_size; an append changes only bytes of the bound buffer, in the   *)
(* entry at the old record_count and in the record_count field, all below  *)
(* memory_size; an init changes only the first size bytes of the buffer    *)
(* it is given.                                                            *)
(***************************************************************************)
C16_WritesInBounds ==
    [][ /\ CapacityFits'
        /\ (Bound # NULL /\ last'.fn = "log" /\ mem' # mem) =>
              LET i == ReadU32(mem[Bound], 4)
                  lo == 16 + 32 * i
                  hi == 16 + 32 * (i + 1)
                  old == mem[Bound]
                  new == mem'[Bound]
              IN  /\ \A b \in Buffers \ {Bound} : mem'[b] = mem[b]
                  /\ hi <= gboot_records_config.memory_size
                  /\ SubSeq(new, 1, 4) = SubSeq(old, 1, 4)
                  /\ SubSeq(new, 9, lo) = SubSeq(old, 9, lo)
                  /\ SubSeq(new, hi + 1, Len(new)) = SubSeq(old, hi + 1, Len(old))
        /\ (last'.fn = "init" /\ mem' # mem) =>
              /\ last'.memory_addr # NULL
              /\ \A b \in Buffers \ {last'.memory_addr} : mem'[b] = mem[b]
              /\ LET old == mem[last'.memory_addr]
                     new == mem'[last'.memory_addr]
                 IN  SubSeq(new, last'.size + 1, Len(new))
                       = SubSeq(old, last'.size + 1, Len(old)) ]_vars

\* the last slot of a store whose size leaves a remainder has been filled
C16_Witness ==
    /\ last.fn = "log" /\ last.status = BOOT_RECORD_SUCCESS
    /\ Bound # NULL
    /\ (gboot_records_config.memory_size - 16) % 32 # 0
    /\ ReadU32(mem[Bound], 4) = gboot_records_config.possible_records

(***************************************************************************)
(* C17: boot_record_init returns only Success or InvalidParams, never      *)
(* InsufficientMemory: a call that passes the parameter check has a size   *)
(* of at least 16, so size - 16 does not wrap, and possible_records is at  *)
(* least 1.                                                                *)
(***************************************************************************)
C17_NoInsufficientMemory ==
    last.fn = "init" =>
        /\ last.status \in {BOOT_RECORD_SUCCESS,
                            BOOT_RECORD_ERR_INVALID_PARAMS}
        /\ last.status = BOOT_RECORD_SUCCESS =>
              /\ last.size >= 16
              /\ gboot_records_config.possible_records >= 1

\* the smallest accepted size
C17_Witness ==
    /\ last.fn = "init"
    /\ last.size = 48
    /\ last.status = BOOT_RECORD_SUCCESS
    /\ gboot_records_config.possible_records = 1

(***************************************************************************)
(* C18: in every Active state every byte of the bound buffer from offset   *)
(* 16 + 32 * record_count up to memory_size is zero.                       *)
(***************************************************************************)
C18_UnusedSlotsZero ==
    Bound # NULL =>
        \A j \in (16 + 32 * ReadU32(mem[Bound], 4))
                    ..(gboot_records_config.memory_size - 1) :
            mem[Bound][j + 1] = 0

\* one entry written after the clock has advanced, one slot still unused
C18_Witness ==
    /\ Bound # NULL
    /\ last.fn = "log" /\ last.from = "Free"
    /\ last.status = BOOT_RECORD_SUCCESS
    /\ ReadU32(mem[Bound], 4) = 1
    /\ gboot_records_config.possible_records = 2
    /\ mem[Bound][17] # 0
    /\ now > 0

(***************************************************************************)
(* C19: a successful init binds the buffer it is given, and from then on   *)
(* no call changes a byte of any other buffer: the buffer bound before     *)
(* keeps the header and entries of its session.                            *)
(***************************************************************************)
C19_OldBufferUntouched ==
    [][ /\ last'.fn = "log" =>
              \A b \in Buffers \ {Bound} : mem'[b] = mem[b]
        /\ last'.fn = "init" =>
              \A b \in Buffers \ {last'.memory_addr} : mem'[b] = mem[b]
        /\ (last'.fn = "init" /\ last'.status = BOOT_RECORD_SUCCESS) =>
              /\ Bound' = last'.memory_addr
              /\ gboot_records_config'.records = last'.memory_addr ]_vars

\* an append into the bound buffer while the other buffer holds the entry
\* of an earlier session
C19_Witness ==
    /\ last.fn = "log" /\ last.status = BOOT_RECORD_SUCCESS
    /\ \E a \in Buffers \ {Bound} :
          /\ ReadU32(mem[a], 0) = sess.stage_id
          /\ ReadU32(mem[a], 4) = 1
          /\ mem[a][17] # 0

(***************************************************************************)
(* C20: boot_record_log_profile returns InvalidParams for a null label in  *)
(* every state; for a non-null label it returns InvalidParams when the     *)
(* store is Uninitialized, Overflow when it is full, Success otherwise;    *)
(* it returns no other status.                                             *)
(***************************************************************************)
C20_StatusOrder ==
    last.fn = "log" =>
        last.status =
            IF last.null_name THEN BOOT_RECORD_ERR_INVALID_PARAMS
            ELSE IF last.from = "Uninitialized"
                 THEN BOOT_RECORD_ERR_INVALID_PARAMS
            ELSE IF last.from \in {"Full", "Overflowed"}
                 THEN BOOT_RECORD_ERR_OVERFLOW
            ELSE BOOT_RECORD_SUCCESS

\* a null label on a store at capacity
C20_Witness ==
    /\ last.fn = "log" /\ last.null_name
    /\ last.from = "Full"
    /\ last.status = BOOT_RECORD_ERR_INVALID_PARAMS

=============================================================================
